---- MODULE Spec2Model ----
(***************************************************************************)
(* A model of the rx crate: the Observer/Observable protocol and its       *)
(* helper observers, the Subject broadcaster, the Lifeline/Owner pair, the *)
(* cold sources and the Map, MapError and ContinueWith combinators.        *)
(*                                                                         *)
(* One action is one call made by the program that uses the crate          *)
(* (subscribe, Subject::on_next / on_completed / on_error, dropping a      *)
(* subscription).  A call runs to its end inside the action: it is a       *)
(* function from the world before the call to the world after it.          *)
(***************************************************************************)
EXTENDS Integers, Sequences, FiniteSets, TLC

\* ---------------------------------------------------------------- bounds
NumObservers == 3          \* downstream observers the program creates
MaxPush == 3               \* Subject::on_next calls in one run
MaxOwnerCalls == 2         \* Owner operations on one Lifeline/Owner pair

Observers == 1..NumObservers
Subjects == {1, 2}         \* the two Subject instances of the program
Item == 1..MaxPush         \* values of T: the k-th push of a run pushes k
Failure == {1, 2}          \* values of E
Slices == {<<>>, <<8, 9>>} \* the containers used as finite sources
Pairs == {1, 2}            \* the Lifeline/Owner pairs the program makes itself

VARIABLES
  subject,       \* [Subjects -> [moved, observers]]: Subject.observers, and
                 \* whether the Subject was consumed by a terminal call
  rcs,           \* the Rc<()> of the SubjectSubscriptions that are not dropped
  cell,          \* [Observers -> storage of the Lifeline/Owner pair that the
                 \* ContinueWith subscription of that observer created, or
                 \* that the program made itself]
  subscription,  \* [Observers -> the Subscription the program holds]
  received,      \* [Observers -> Seq of the Observer calls it received]
  panicked,      \* a panic is unwinding the program
  pushed,        \* history: [Subjects -> Seq(Item)] pushed with on_next
  since,         \* history: [Subjects -> [Observers -> Len(pushed) at subscribe]]
  terminal,      \* history: [Subjects -> Seq of the terminal calls made on it]
  clones,        \* history: item.clone() calls made by the last on_next
  observable,    \* history: [Observers -> the observable it was subscribed to]
  subscribes,    \* history: [Observers -> Seq of the sources whose subscribe
                 \* was called with (an adapter of) that observer]
  applied,       \* history: [Observers -> Seq of the closure calls that the
                 \* Map and MapError adapters of that observer made]
  called,        \* history: [Observers -> Seq of the calls of the functions
                 \* given to the subscribe helper of that observer]
  helper,        \* history: [Observers -> the subscribe helper that made it]
  order,         \* history: the observers that the last call of the program
                 \* called, in the order of their calls
  invoked,       \* history: [Pairs -> Seq of the values that the actions given
                 \* to with_value and with_mut_value were invoked on]
  destroyed,     \* history: Seq of the values dropped out of a pair
  owner_calls,   \* history: [Pairs -> Seq of the Owner operations called,
                 \* with the value their action assigns]
  taken          \* [Pairs -> what Owner::take returned, if it was called]

vars == <<subject, rcs, cell, subscription, received, panicked,
          pushed, since, terminal, clones, observable, subscribes,
          applied, called, helper, order, invoked, destroyed, owner_calls, taken>>

\* ------------------------------------------------------------ the values
NoSubscription == [type |-> "none"]
Dropped == [type |-> "dropped"]
Unwound == [type |-> "unwound"]
UncancellableSubscription == [type |-> "UncancellableSubscription"]
NeverSubscription == [type |-> "NeverSubscription"]

\* The values the program stores in its pairs, the emptied storage, and the
\* return values of Owner::take.
Value(v) == [type |-> "Value", id |-> v]
Values == {Value(1), Value(2)}
Taken == [type |-> "taken"]
NotTaken == [type |-> "not called"]
TakeNone == [type |-> "None"]
TakeSome(value) == [type |-> "Some", value |-> value]

\* The Owner operations, with the value that the action given to
\* with_mut_value assigns.
WithValueCall == [op |-> "with_value", assigns |-> NoSubscription]
WithMutValueCall(value) == [op |-> "with_mut_value", assigns |-> value]
TakeCall == [op |-> "take", assigns |-> NoSubscription]

NextCall(item) == [call |-> "on_next", arg |-> item]
CompletedCall == [call |-> "on_completed", arg |-> 0]
ErrorCall(error) == [call |-> "on_error", arg |-> error]

\* The helper observers: the ones without an error handler and the ones
\* with one.
HelperObservers == {"NextObserver", "ErrorObserver"}

\* All the helper observers of the Observable trait.
Helpers ==
  HelperObservers \cup {"CompletedObserver", "OptionObserver", "ResultObserver"}

\* The arguments of the functions given to the helpers: a plain value, (),
\* Option<T> and Result<Option<T>, E>.
Plain(x) == [result |-> "", option |-> "", value |-> x]
Unit == [result |-> "", option |-> "", value |-> 0]
Some(x) == [result |-> "", option |-> "Some", value |-> x]
None == [result |-> "", option |-> "None", value |-> 0]
Ok(option) == [option EXCEPT !.result = "Ok"]
Err(error) == [result |-> "Err", option |-> "", value |-> error]

SubjectSource(s) == [type |-> "Subject", id |-> s]
SliceSource(items) == [type |-> "Slice", items |-> items]
ErrorObservable(error) == [type |-> "ErrorObservable", error |-> error]
Never == [type |-> "Never"]

\* A Result value used as an observable: Ok(value) or Err(error).
ResultOk(value) == [type |-> "Result", ok |-> TRUE, value |-> value]
ResultErr(error) == [type |-> "Result", ok |-> FALSE, value |-> error]
NoObservable == [type |-> "none"]

\* An observable of the program that does not honour release: it subscribes
\* the observer to a Subject of its own, keeps the SubjectSubscription to
\* itself and returns a subscription whose drop is a no-op.
KeepingSource(s) == [type |-> "Keeping", id |-> s]
KeptSubscription == [type |-> "KeptSubscription"]
ContinueWithObservable(source, next) ==
  [type |-> "ContinueWithObservable", source |-> source, next |-> next]

MapObservable(source, f) == [type |-> "MapObservable", source |-> source, f |-> f]
MapErrorObservable(source, f) ==
  [type |-> "MapErrorObservable", source |-> source, f |-> f]

\* The closures given to map and map_error, and what a call of one returns.
Closures == {"double", "plus_ten"}
Call(f, x) == IF f = "double" THEN x * 2 ELSE x + 10

Last(seq) == seq[Len(seq)]

Adapters == {"ContinueWithObserver", "MapObserver", "MapErrorObserver"}

\* The downstream observer an adapter (or a helper observer itself) ends in.
RECURSIVE Id(_)
Id(t) == IF t.type \in Adapters THEN Id(t.observer) ELSE t.id

\* The world a call works on: the program's state and the call's result.
World ==
  [subject |-> subject, rcs |-> rcs, cell |-> cell, received |-> received,
   panicked |-> panicked, since |-> since, clones |-> clones,
   subscribes |-> subscribes, applied |-> applied,
   called |-> called, invoked |-> invoked, destroyed |-> destroyed,
   order |-> <<>>, ret |-> NoSubscription]

RECURSIVE OnNext(_, _, _), OnCompleted(_, _), OnError(_, _, _)
RECURSIVE Subscribe(_, _, _), DropSubscription(_, _)

\* ------------------------------------------------------- helper observers
Receive(w, o, c) ==
  [w EXCEPT !.received[o] = Append(@, c), !.order = Append(@, o)]

\* A call of one of the functions the program gave to a subscribe helper.
UserCall(w, o, fn, arg) ==
  [w EXCEPT !.called[o] = Append(@, [fn |-> fn, arg |-> arg])]

\* Mutant: every helper observer hands the item to its function as it is.
HelperOnNextBare(w, t, item) ==
  LET w1 == Receive(w, t.id, NextCall(item))
  IN CASE t.type = "OptionObserver" -> UserCall(w1, t.id, "fn_option", Plain(item))
       [] t.type = "ResultObserver" -> UserCall(w1, t.id, "fn_result", Plain(item))
       [] OTHER -> UserCall(w1, t.id, "fn_next", Plain(item))

\* on_next of the helper observers: fn_next(item), fn_option(Some(item)),
\* fn_result(Ok(Some(item))).
HelperOnNext(w, t, item) ==
  LET w1 == Receive(w, t.id, NextCall(item))
  IN CASE t.type = "OptionObserver" -> UserCall(w1, t.id, "fn_option", Some(item))
       [] t.type = "ResultObserver" -> UserCall(w1, t.id, "fn_result", Ok(Some(item)))
       [] OTHER -> UserCall(w1, t.id, "fn_next", Plain(item))

\* Mutant: no helper observer has a completion handler, as NextObserver.
HelperOnCompletedIgnored(w, t) == Receive(w, t.id, CompletedCall)

\* Mutant: the function of OptionObserver is called with None a second time.
HelperOnCompletedTwice(w, t) ==
  LET w1 == Receive(w, t.id, CompletedCall)
  IN CASE t.type = "NextObserver" -> w1
       [] t.type = "OptionObserver" ->
            UserCall(UserCall(w1, t.id, "fn_option", None), t.id, "fn_option", None)
       [] t.type = "ResultObserver" -> UserCall(w1, t.id, "fn_result", Ok(None))
       [] OTHER -> UserCall(w1, t.id, "fn_completed", Unit)

\* on_completed of the helper observers: NextObserver ignores it, the others
\* call fn_completed(), fn_option(None), fn_result(Ok(None)).
HelperOnCompleted(w, t) ==
  LET w1 == Receive(w, t.id, CompletedCall)
  IN CASE t.type = "NextObserver" -> w1
       [] t.type = "OptionObserver" -> UserCall(w1, t.id, "fn_option", None)
       [] t.type = "ResultObserver" -> UserCall(w1, t.id, "fn_result", Ok(None))
       [] OTHER -> UserCall(w1, t.id, "fn_completed", Unit)

\* Mutant: an observer without an error handler hands the error to fn_next
\* and goes on.
HelperOnErrorLenient(w, t, error) ==
  LET w1 == Receive(w, t.id, ErrorCall(error))
  IN CASE t.type = "ErrorObserver" -> UserCall(w1, t.id, "fn_error", Plain(error))
       [] t.type = "ResultObserver" -> UserCall(w1, t.id, "fn_result", Err(error))
       [] OTHER -> UserCall(w1, t.id, "fn_next", Plain(error))

\* on_error of the helper observers: ErrorObserver calls fn_error(error),
\* ResultObserver fn_result(Err(error)), the others panic.
HelperOnError(w, t, error) ==
  LET w1 == Receive(w, t.id, ErrorCall(error))
  IN CASE t.type = "ErrorObserver" -> UserCall(w1, t.id, "fn_error", Plain(error))
       [] t.type = "ResultObserver" -> UserCall(w1, t.id, "fn_result", Err(error))
       [] OTHER -> [w1 EXCEPT !.panicked = TRUE]

\* ---------------------------------------------------------------- lifeline
\* lifeline::new(value): a fresh cell holding Some(value), Lifeline strong.
LifelineNew(w, c, value) ==
  [w EXCEPT !.cell[c] = [state |-> "alive", value |-> value]]

\* self.value.upgrade() is Some(cell), and *cell.borrow() is Some(value)
Alive(w, c) == w.cell[c].state = "alive" /\ w.cell[c].value # Taken

\* Mutant: the action is not run: the closure is dropped with subs_next in it.
WithMutValueReplaceLost(w, c, subs_next) == DropSubscription(w, subs_next)

\* Mutant: a closure that is not run is leaked with subs_next in it.
WithMutValueReplaceLeak(w, c, subs_next) ==
  IF Alive(w, c)
  THEN DropSubscription([w EXCEPT !.cell[c].value = subs_next], w.cell[c].value)
  ELSE w

\* Owner::with_mut_value with the action of ContinueWithObserver::on_completed,
\* mem::replace(subs, Some(subs_next)): the action runs if the Weak upgrades,
\* and the closure (with subs_next in it) is dropped if it does not.
WithMutValueReplace(w, c, subs_next) ==
  IF Alive(w, c)
  THEN DropSubscription([w EXCEPT !.cell[c].value = subs_next], w.cell[c].value)
  ELSE DropSubscription(w, subs_next)

\* action(value)
Invoke(w, c) == [w EXCEPT !.invoked[c] = Append(@, w.cell[c].value)]

\* Mutant: the action is invoked whether the value is alive or not.
OwnerWithValueUnchecked(w, c) == Invoke(w, c)

\* Owner::with_value
OwnerWithValue(w, c) == IF Alive(w, c) THEN Invoke(w, c) ELSE w

\* Mutant: the action is given a copy of the stored value.
OwnerWithMutValueCopy(w, c, value) == IF Alive(w, c) THEN Invoke(w, c) ELSE w

\* Owner::with_mut_value, with an action that assigns value to the stored one.
OwnerWithMutValue(w, c, value) ==
  IF Alive(w, c)
  THEN DropSubscription([Invoke(w, c) EXCEPT !.cell[c].value = value],
                        w.cell[c].value)
  ELSE w

\* Mutant: the value is returned and a copy of it stays in the storage.
OwnerTakeKeep(w, c) ==
  IF w.cell[c].state = "alive"
  THEN [w EXCEPT !.ret = IF w.cell[c].value = Taken THEN TakeNone
                         ELSE TakeSome(w.cell[c].value)]
  ELSE [w EXCEPT !.ret = TakeNone]

\* Owner::take
OwnerTake(w, c) ==
  IF w.cell[c].state = "alive"
  THEN [w EXCEPT !.cell[c].value = Taken,
                 !.ret = IF w.cell[c].value = Taken THEN TakeNone
                         ELSE TakeSome(w.cell[c].value)]
  ELSE [w EXCEPT !.ret = TakeNone]

\* Mutant: the cell goes, the value in it is leaked and not dropped.
DropLifelineLeak(w, c) ==
  IF w.cell[c].state = "alive"
  THEN [w EXCEPT !.cell[c] = [state |-> "dropped", value |-> NoSubscription]]
  ELSE w

\* Dropping the Lifeline drops the Rc, the cell and the value in it.
DropLifeline(w, c) ==
  IF w.cell[c].state = "alive"
  THEN DropSubscription(
         [w EXCEPT !.cell[c] = [state |-> "dropped", value |-> NoSubscription]],
         w.cell[c].value)
  ELSE w

\* ----------------------------------------------------------------- subject
\* Mutant: the liveness of the subscription is not looked at.
UpgradeAlways(w, alive) == TRUE

\* observer_box.alive.upgrade() is Some
Upgrade(w, alive) == alive \in w.rcs

\* item.clone()
Clone(w) == [w EXCEPT !.clones = @ + 1]

\* Mutant: a Subject that replays the latest item to a new subscriber.
SubjectSubscribeReplay(w, s, t) ==
  LET alive_owner == <<s, Id(t)>>
      observer_box == [observer |-> t, alive |-> alive_owner]
      w1 == [w EXCEPT !.subject[s].observers = Append(@, observer_box),
                      !.rcs = @ \cup {alive_owner},
                      !.since[s][Id(t)] = Len(pushed[s]),
                      !.ret = [type |-> "SubjectSubscription", alive |-> alive_owner]]
  IN IF pushed[s] = <<>> THEN w1 ELSE OnNext(w1, t, Last(pushed[s]))

\* SubjectObservable::subscribe
SubjectSubscribe(w, s, t) ==
  LET alive_owner == <<s, Id(t)>>
      observer_box == [observer |-> t, alive |-> alive_owner]
  IN [w EXCEPT !.subject[s].observers = Append(@, observer_box),
               !.rcs = @ \cup {alive_owner},
               !.since[s][Id(t)] = Len(pushed[s]),
               !.ret = [type |-> "SubjectSubscription", alive |-> alive_owner]]

\* Mutant: the item is cloned before the liveness check.
SubjectOnNextBoxCloneFirst(w, observer_box, item) ==
  IF Upgrade(w, observer_box.alive)
  THEN OnNext(Clone(w), observer_box.observer, item)
  ELSE Clone(w)

\* One turn of the loop of Subject::on_next.
SubjectOnNextBox(w, observer_box, item) ==
  IF Upgrade(w, observer_box.alive)
  THEN OnNext(Clone(w), observer_box.observer, item)
  ELSE w

\* Mutant: the loop ends after its first turn.
SubjectOnNextFirst(w, s, i, item) ==
  IF i > Len(w.subject[s].observers) \/ w.panicked THEN w
  ELSE SubjectOnNextBox(w, w.subject[s].observers[i], item)

RECURSIVE SubjectOnNextFrom(_, _, _, _)
SubjectOnNextFrom(w, s, i, item) ==
  IF i > Len(w.subject[s].observers) \/ w.panicked THEN w
  ELSE SubjectOnNextFrom(SubjectOnNextBox(w, w.subject[s].observers[i], item),
                         s, i + 1, item)

\* Mutant: the loop visits the boxes from the last one to the first.
SubjectOnNextReversed(w, s, item) ==
  LET boxes == w.subject[s].observers
      reversed == [i \in 1..Len(boxes) |-> boxes[Len(boxes) + 1 - i]]
      w1 == SubjectOnNextFrom(
              [w EXCEPT !.clones = 0, !.subject[s].observers = reversed], s, 1, item)
  IN [w1 EXCEPT !.subject[s].observers = boxes]

\* Subject::on_next
SubjectOnNext(w, s, item) == SubjectOnNextFrom([w EXCEPT !.clones = 0], s, 1, item)

\* Mutant: the boxes are visited in place and the Subject is not consumed.
DrainKept(w, s) == w

\* Mutant: the boxes are drained, the Subject is not consumed.
DrainNotConsumed(w, s) == [w EXCEPT !.subject[s].observers = <<>>]

\* self.observers.drain(..) of a Subject taken by value: the boxes leave the
\* collection and the Subject is gone when the call ends.
Drain(w, s) == [w EXCEPT !.subject[s] = [moved |-> TRUE, observers |-> <<>>]]

\* Mutant: the completion is given to the dead registrations too.
SubjectOnCompletedBoxAll(w, observer_box) == OnCompleted(w, observer_box.observer)

\* One turn of the loop of Subject::on_completed.
SubjectOnCompletedBox(w, observer_box) ==
  IF Upgrade(w, observer_box.alive)
  THEN OnCompleted(w, observer_box.observer)
  ELSE w

\* Mutant: the terminal call is made on dead registrations too.
SubjectOnErrorBoxAll(w, observer_box, error) ==
  OnError(w, observer_box.observer, error)

SubjectOnErrorBox(w, observer_box, error) ==
  IF Upgrade(w, observer_box.alive)
  THEN OnError(w, observer_box.observer, error)
  ELSE w

RECURSIVE SubjectOnCompletedFrom(_, _, _)
SubjectOnCompletedFrom(w, boxes, i) ==
  IF i > Len(boxes) \/ w.panicked THEN w
  ELSE SubjectOnCompletedFrom(SubjectOnCompletedBox(w, boxes[i]), boxes, i + 1)

RECURSIVE SubjectOnErrorFrom(_, _, _, _)
SubjectOnErrorFrom(w, boxes, i, error) ==
  IF i > Len(boxes) \/ w.panicked THEN w
  ELSE SubjectOnErrorFrom(SubjectOnErrorBox(w, boxes[i], error), boxes, i + 1, error)

\* Subject::on_completed
SubjectOnCompleted(w, s) ==
  SubjectOnCompletedFrom(Drain(w, s), w.subject[s].observers, 1)

\* Mutant: the panic of an observer is caught and on_error returns.
SubjectOnErrorCaught(w, s, error) ==
  [SubjectOnErrorFrom(Drain(w, s), w.subject[s].observers, 1, error)
     EXCEPT !.panicked = FALSE]

\* Subject::on_error
SubjectOnError(w, s, error) ==
  SubjectOnErrorFrom(Drain(w, s), w.subject[s].observers, 1, error)

\* subscribe of the observable that does not honour release: the
\* SubjectSubscription stays alive in the observable.
KeepingSubscribe(w, s, t) ==
  [SubjectSubscribe(w, s, t) EXCEPT !.ret = KeptSubscription]

\* ------------------------------------------------------- the cold sources
RECURSIVE SliceEmit(_, _, _)
SliceEmit(w, t, items) ==
  IF items = <<>> THEN w
  ELSE SliceEmit(OnNext(w, t, Head(items)), t, Tail(items))

\* Mutant: the elements are emitted and the completion is left out.
SliceSubscribeUncompleted(w, items, t) ==
  [SliceEmit(w, t, items) EXCEPT !.ret = UncancellableSubscription]

\* impl Observable for &I: every element, then on_completed.
SliceSubscribe(w, items, t) ==
  [OnCompleted(SliceEmit(w, t, items), t) EXCEPT !.ret = UncancellableSubscription]

\* Mutant: the error source gives the error as an item and then fails.
ErrorSubscribeItem(w, error, t) ==
  [OnError(OnNext(w, t, error), t, error) EXCEPT !.ret = UncancellableSubscription]

\* ErrorObservable::subscribe
ErrorSubscribe(w, error, t) ==
  [OnError(w, t, error) EXCEPT !.ret = UncancellableSubscription]

\* Never::subscribe
NeverSubscribe(w, t) == [w EXCEPT !.ret = NeverSubscription]

\* Mutant: a failure value ends like an empty source, with on_completed.
ResultSubscribeNoError(w, result, t) ==
  [(IF result.ok THEN OnCompleted(OnNext(w, t, result.value), t)
    ELSE OnCompleted(w, t)) EXCEPT !.ret = UncancellableSubscription]

\* impl Observable for Result: a success value is given with on_next and
\* then on_completed, a failure value with on_error.
ResultSubscribe(w, result, t) ==
  [(IF result.ok THEN OnCompleted(OnNext(w, t, result.value), t)
    ELSE OnError(w, t, result.value)) EXCEPT !.ret = UncancellableSubscription]

\* ------------------------------------------------------------ ContinueWith
\* ContinueWithObserver::on_next
ContinueWithOnNext(w, t, item) == OnNext(w, t.observer, item)

\* Mutant: the completion of source is forwarded, not intercepted.
ContinueWithOnCompletedForward(w, t) ==
  LET w1 == Subscribe(OnCompleted(w, t.observer), t.next, t.observer)
  IN IF w1.panicked THEN w1
     ELSE WithMutValueReplace(w1, t.subscription, w1.ret)

\* Mutant: next is subscribed and the completion of source is given on too.
ContinueWithOnCompletedAlso(w, t) ==
  LET w1 == Subscribe(w, t.next, t.observer)
  IN IF w1.panicked THEN w1
     ELSE OnCompleted(WithMutValueReplace(w1, t.subscription, w1.ret), t.observer)

\* ContinueWithObserver::on_completed
ContinueWithOnCompleted(w, t) ==
  LET w1 == Subscribe(w, t.next, t.observer)
  IN IF w1.panicked THEN w1
     ELSE WithMutValueReplace(w1, t.subscription, w1.ret)

\* Mutant: a failure of source is continued with next like a completion.
ContinueWithOnErrorContinue(w, t, error) == ContinueWithOnCompleted(w, t)

\* ContinueWithObserver::on_error
ContinueWithOnError(w, t, error) == OnError(w, t.observer, error)

\* Mutant: next is subscribed together with source.
ContinueWithSubscribeEager(w, source, next, t) ==
  LET c == Id(t)
      continued_observer ==
        [type |-> "ContinueWithObserver", observer |-> t, next |-> next,
         subscription |-> c]
      w1 == Subscribe(LifelineNew(w, c, NoSubscription), source, continued_observer)
      w2 == Subscribe(w1, next, t)
  IN IF w2.panicked THEN DropLifeline(w2, c)
     ELSE [w2 EXCEPT !.ret = [type |-> "ContinueWithSubscription",
                              subs_source |-> w1.ret, subs_next |-> c]]

\* ContinueWithObservable::subscribe
ContinueWithSubscribe(w, source, next, t) ==
  LET c == Id(t)
      continued_observer ==
        [type |-> "ContinueWithObserver", observer |-> t, next |-> next,
         subscription |-> c]
      w1 == Subscribe(LifelineNew(w, c, NoSubscription), source, continued_observer)
  IN IF w1.panicked THEN DropLifeline(w1, c)
     ELSE [w1 EXCEPT !.ret = [type |-> "ContinueWithSubscription",
                              subs_source |-> w1.ret, subs_next |-> c]]

\* ------------------------------------------------------- Map and MapError
\* self.f.call((x,))
Apply(w, t, x) == [w EXCEPT !.applied[Id(t)] = Append(@, [f |-> t.f, arg |-> x])]

\* Mutant: the item is forwarded as it is.
MapOnNextUnmapped(w, t, item) == OnNext(w, t.observer, item)

\* MapObserver::on_next
MapOnNext(w, t, item) == OnNext(Apply(w, t, item), t.observer, Call(t.f, item))

\* MapObserver::on_completed
MapOnCompleted(w, t) == OnCompleted(w, t.observer)

\* MapObserver::on_error
MapOnError(w, t, error) == OnError(w, t.observer, error)

\* Mutant: the subscription of source is kept and another one is returned.
MapSubscribeDetached(w, source, f, t) ==
  [Subscribe(w, source, [type |-> "MapObserver", observer |-> t, f |-> f])
     EXCEPT !.ret = UncancellableSubscription]

\* MapObservable::subscribe
MapSubscribe(w, source, f, t) ==
  Subscribe(w, source, [type |-> "MapObserver", observer |-> t, f |-> f])

\* MapErrorObserver::on_next
MapErrorOnNext(w, t, item) == OnNext(w, t.observer, item)

\* MapErrorObserver::on_completed
MapErrorOnCompleted(w, t) == OnCompleted(w, t.observer)

\* Mutant: the error is forwarded as it is.
MapErrorOnErrorUnmapped(w, t, error) == OnError(w, t.observer, error)

\* MapErrorObserver::on_error
MapErrorOnError(w, t, error) ==
  OnError(Apply(w, t, error), t.observer, Call(t.f, error))

\* MapErrorObservable::subscribe
MapErrorSubscribe(w, source, f, t) ==
  Subscribe(w, source, [type |-> "MapErrorObserver", observer |-> t, f |-> f])

\* ---------------------------------------------------------------- dispatch
OnNext(w, t, item) ==
  IF w.panicked THEN w
  ELSE CASE t.type = "ContinueWithObserver" -> ContinueWithOnNext(w, t, item)
         [] t.type = "MapObserver" -> MapOnNext(w, t, item)
         [] t.type = "MapErrorObserver" -> MapErrorOnNext(w, t, item)
         [] OTHER -> HelperOnNext(w, t, item)

OnCompleted(w, t) ==
  IF w.panicked THEN w
  ELSE CASE t.type = "ContinueWithObserver" -> ContinueWithOnCompleted(w, t)
         [] t.type = "MapObserver" -> MapOnCompleted(w, t)
         [] t.type = "MapErrorObserver" -> MapErrorOnCompleted(w, t)
         [] OTHER -> HelperOnCompleted(w, t)

OnError(w, t, error) ==
  IF w.panicked THEN w
  ELSE CASE t.type = "ContinueWithObserver" -> ContinueWithOnError(w, t, error)
         [] t.type = "MapObserver" -> MapOnError(w, t, error)
         [] t.type = "MapErrorObserver" -> MapErrorOnError(w, t, error)
         [] OTHER -> HelperOnError(w, t, error)

\* The call source.subscribe(t) is made.
SubscribeCalled(w, source, t) == [w EXCEPT !.subscribes[Id(t)] = Append(@, source)]

Subscribe(w, source, t) ==
  CASE source.type = "Subject" ->
         SubjectSubscribe(SubscribeCalled(w, source, t), source.id, t)
    [] source.type = "Slice" ->
         SliceSubscribe(SubscribeCalled(w, source, t), source.items, t)
    [] source.type = "ErrorObservable" ->
         ErrorSubscribe(SubscribeCalled(w, source, t), source.error, t)
    [] source.type = "Never" -> NeverSubscribe(SubscribeCalled(w, source, t), t)
    [] source.type = "Result" ->
         ResultSubscribe(SubscribeCalled(w, source, t), source, t)
    [] source.type = "Keeping" ->
         KeepingSubscribe(SubscribeCalled(w, source, t), source.id, t)
    [] source.type = "ContinueWithObservable" ->
         ContinueWithSubscribe(w, source.source, source.next, t)
    [] source.type = "MapObservable" -> MapSubscribe(w, source.source, source.f, t)
    [] source.type = "MapErrorObservable" ->
         MapErrorSubscribe(w, source.source, source.f, t)

\* Mutant: dropping a SubjectSubscription removes its box from the Subject.
DropSubscriptionEager(w, sub) ==
  CASE sub.type = "SubjectSubscription" ->
         [w EXCEPT !.rcs = @ \ {sub.alive},
                   !.subject[sub.alive[1]].observers =
                     SelectSeq(@, LAMBDA b : b.alive # sub.alive)]
    [] sub.type = "ContinueWithSubscription" ->
         DropLifeline(DropSubscription(w, sub.subs_source), sub.subs_next)
    [] sub.type = "Value" -> [w EXCEPT !.destroyed = Append(@, sub)]
    [] OTHER -> w

\* Drop of a Subscription: SubjectSubscription drops its Rc;
\* ContinueWithSubscription drops subs_source and the Lifeline subs_next; the
\* drop of the others is a no-op.  Drop of a value the program stored.
DropSubscription(w, sub) ==
  CASE sub.type = "SubjectSubscription" -> [w EXCEPT !.rcs = @ \ {sub.alive}]
    [] sub.type = "ContinueWithSubscription" ->
         DropLifeline(DropSubscription(w, sub.subs_source), sub.subs_next)
    [] sub.type = "Value" -> [w EXCEPT !.destroyed = Append(@, sub)]
    [] OTHER -> w

\* ------------------------------------------------------------- the program
\* next: &'a mut ObNext of a ContinueWithObserver that a Subject still holds
\* keeps that Subject mutably borrowed.
Borrowed(s) ==
  \E s2 \in Subjects : \E i \in DOMAIN subject[s2].observers :
    LET t == subject[s2].observers[i].observer
    IN t.type = "ContinueWithObserver" /\ t.next = SubjectSource(s)

\* A Subject the program can call: not consumed, not borrowed.
Usable(s) == ~subject[s].moved /\ ~Borrowed(s)

\* An observable the program can subscribe to.
CanSubscribe(source) == source.type \in {"Subject", "Keeping"} => Usable(source.id)

Sources ==
  {SubjectSource(s) : s \in Subjects}
    \cup {SliceSource(items) : items \in Slices}
    \cup {ErrorObservable(error) : error \in Failure}
    \cup {Never}

Pushes == Len(pushed[1]) + Len(pushed[2])

\* The program creates its observers in turn: observer o is the o-th one.
Fresh(o) ==
  /\ subscription[o] = NoSubscription
  /\ \A p \in Observers : p < o => subscription[p] # NoSubscription

Commit(w) ==
  /\ subject' = w.subject
  /\ rcs' = w.rcs
  /\ cell' = w.cell
  /\ received' = w.received
  /\ panicked' = w.panicked
  /\ since' = w.since
  /\ clones' = w.clones
  /\ subscribes' = w.subscribes
  /\ applied' = w.applied
  /\ called' = w.called
  /\ order' = w.order
  /\ invoked' = w.invoked
  /\ destroyed' = w.destroyed

Returned(w) == IF w.panicked THEN Unwound ELSE w.ret

\* source.subscribe_next(..) or source.subscribe_error(..)
SubscribeHelper(o, kind, source) ==
  /\ ~panicked
  /\ Fresh(o)
  /\ CanSubscribe(source)
  /\ LET w == Subscribe(World, source, [type |-> kind, id |-> o])
     IN Commit(w) /\ subscription' = [subscription EXCEPT ![o] = Returned(w)]
  /\ observable' = [observable EXCEPT ![o] = source]
  /\ helper' = [helper EXCEPT ![o] = kind]
  /\ UNCHANGED <<pushed, terminal, owner_calls, taken>>

\* source.continue_with(&mut next).subscribe_next(..) or .subscribe_error(..)
SubscribeContinueWith(o, kind, source, next) ==
  /\ ~panicked
  /\ Fresh(o)
  /\ CanSubscribe(source) /\ CanSubscribe(next)
  /\ source.type = "Subject" => source # next
  /\ LET w == Subscribe(World, ContinueWithObservable(source, next),
                        [type |-> kind, id |-> o])
     IN Commit(w) /\ subscription' = [subscription EXCEPT ![o] = Returned(w)]
  /\ observable' = [observable EXCEPT ![o] = ContinueWithObservable(source, next)]
  /\ helper' = [helper EXCEPT ![o] = kind]
  /\ UNCHANGED <<pushed, terminal, owner_calls, taken>>

\* source.map(f).subscribe_next(..), or another of the subscribe helpers
SubscribeMap(o, kind, source, f) ==
  /\ ~panicked
  /\ Fresh(o)
  /\ CanSubscribe(source)
  /\ LET w == Subscribe(World, MapObservable(source, f), [type |-> kind, id |-> o])
     IN Commit(w) /\ subscription' = [subscription EXCEPT ![o] = Returned(w)]
  /\ observable' = [observable EXCEPT ![o] = MapObservable(source, f)]
  /\ helper' = [helper EXCEPT ![o] = kind]
  /\ UNCHANGED <<pushed, terminal, owner_calls, taken>>

\* source.map_error(f).subscribe_next(..), or another of the subscribe helpers
SubscribeMapError(o, kind, source, f) ==
  /\ ~panicked
  /\ Fresh(o)
  /\ CanSubscribe(source)
  /\ LET w == Subscribe(World, MapErrorObservable(source, f),
                        [type |-> kind, id |-> o])
     IN Commit(w) /\ subscription' = [subscription EXCEPT ![o] = Returned(w)]
  /\ observable' = [observable EXCEPT ![o] = MapErrorObservable(source, f)]
  /\ helper' = [helper EXCEPT ![o] = kind]
  /\ UNCHANGED <<pushed, terminal, owner_calls, taken>>

\* subject.on_next(item)
PushNext(s, item) ==
  /\ ~panicked
  /\ Usable(s)
  /\ Pushes < MaxPush
  /\ item = Pushes + 1
  /\ Commit(SubjectOnNext(World, s, item))
  /\ pushed' = [pushed EXCEPT ![s] = Append(@, item)]
  /\ UNCHANGED <<subscription, terminal, observable, helper, owner_calls, taken>>

\* subject.on_completed()
PushCompleted(s) ==
  /\ ~panicked
  /\ Usable(s)
  /\ Commit(SubjectOnCompleted(World, s))
  /\ terminal' = [terminal EXCEPT ![s] = Append(@, CompletedCall)]
  /\ UNCHANGED <<subscription, pushed, observable, helper, owner_calls, taken>>

\* subject.on_error(error)
PushError(s, error) ==
  /\ ~panicked
  /\ Usable(s)
  /\ Commit(SubjectOnError(World, s, error))
  /\ terminal' = [terminal EXCEPT ![s] = Append(@, ErrorCall(error))]
  /\ UNCHANGED <<subscription, pushed, observable, helper, owner_calls, taken>>

\* drop(subscription)
Release(o) ==
  /\ ~panicked
  /\ subscription[o].type \notin {"none", "dropped", "unwound"}
  /\ Commit(DropSubscription(World, subscription[o]))
  /\ subscription' = [subscription EXCEPT ![o] = Dropped]
  /\ UNCHANGED <<pushed, terminal, observable, helper, owner_calls, taken>>

\* let (lifeline, owner) = lifeline::new(value)
LifelineCreate(c, value) ==
  /\ ~panicked
  /\ cell[c].state = "none"
  /\ \A p \in Pairs : p < c => cell[p].state # "none"
  /\ Commit(LifelineNew(World, c, value))
  /\ UNCHANGED <<subscription, pushed, terminal, observable, helper, owner_calls, taken>>

\* drop(lifeline)
LifelineRelease(c) ==
  /\ ~panicked
  /\ cell[c].state = "alive"
  /\ Commit(DropLifeline(World, c))
  /\ UNCHANGED <<subscription, pushed, terminal, observable, helper, owner_calls, taken>>

\* The program has the Owner of the pair: take did not consume it.
HasOwner(c) == cell[c].state # "none" /\ taken[c] = NotTaken

\* owner.with_value(action)
WithValue(c) ==
  /\ ~panicked
  /\ HasOwner(c)
  /\ Len(owner_calls[c]) < MaxOwnerCalls
  /\ Commit(OwnerWithValue(World, c))
  /\ owner_calls' = [owner_calls EXCEPT ![c] = Append(@, WithValueCall)]
  /\ UNCHANGED <<subscription, pushed, terminal, observable, helper, taken>>

\* owner.with_mut_value(|v| *v = value)
WithMutValue(c, value) ==
  /\ ~panicked
  /\ HasOwner(c)
  /\ Len(owner_calls[c]) < MaxOwnerCalls
  /\ Commit(OwnerWithMutValue(World, c, value))
  /\ owner_calls' = [owner_calls EXCEPT ![c] = Append(@, WithMutValueCall(value))]
  /\ UNCHANGED <<subscription, pushed, terminal, observable, helper, taken>>

\* owner.take()
Take(c) ==
  /\ ~panicked
  /\ HasOwner(c)
  /\ LET w == OwnerTake(World, c)
     IN Commit(w) /\ taken' = [taken EXCEPT ![c] = w.ret]
  /\ owner_calls' = [owner_calls EXCEPT ![c] = Append(@, TakeCall)]
  /\ UNCHANGED <<subscription, pushed, terminal, observable, helper>>

Init ==
  /\ subject = [s \in Subjects |-> [moved |-> FALSE, observers |-> <<>>]]
  /\ rcs = {}
  /\ cell = [o \in Observers |-> [state |-> "none", value |-> NoSubscription]]
  /\ subscription = [o \in Observers |-> NoSubscription]
  /\ received = [o \in Observers |-> <<>>]
  /\ panicked = FALSE
  /\ pushed = [s \in Subjects |-> <<>>]
  /\ since = [s \in Subjects |-> [o \in Observers |-> -1]]
  /\ terminal = [s \in Subjects |-> <<>>]
  /\ clones = 0
  /\ observable = [o \in Observers |-> NoObservable]
  /\ subscribes = [o \in Observers |-> <<>>]
  /\ applied = [o \in Observers |-> <<>>]
  /\ called = [o \in Observers |-> <<>>]
  /\ helper = [o \in Observers |-> "none"]
  /\ order = <<>>
  /\ invoked = [c \in Pairs |-> <<>>]
  /\ destroyed = <<>>
  /\ owner_calls = [c \in Pairs |-> <<>>]
  /\ taken = [c \in Pairs |-> NotTaken]

\* The program of the Subject claims: helper observers subscribed to one
\* Subject, which the program pushes to, ends, and whose subscriptions it drops.
Next ==
  \/ \E o \in Observers, kind \in HelperObservers :
       SubscribeHelper(o, kind, SubjectSource(1))
  \/ \E item \in Item : PushNext(1, item)
  \/ PushCompleted(1)
  \/ \E error \in Failure : PushError(1, error)
  \/ \E o \in Observers : Release(o)

Spec == Init /\ [][Next]_vars

\* The program of the ContinueWith claims: one observer subscribed to
\* source.continue_with(next), over Subjects and cold sources.
NextContinueWith ==
  \/ \E kind \in HelperObservers, source \in Sources \ {Never}, next \in Sources :
       SubscribeContinueWith(1, kind, source, next)
  \/ \E s \in Subjects, item \in Item : PushNext(s, item)
  \/ \E s \in Subjects : PushCompleted(s)
  \/ \E s \in Subjects, error \in Failure : PushError(s, error)
  \/ \E o \in Observers : Release(o)

SpecContinueWith == Init /\ [][NextContinueWith]_vars

\* The program of the Map, MapError, source and helper claims: an observer
\* made by any of the subscribe helpers and subscribed to a source, to
\* source.map(f) or to source.map_error(f), the source being a cold source
\* or a Subject that the program pushes to and ends, and a second observer
\* subscribed to that Subject or to a cold source.
ResultSources == {ResultOk(13), ResultErr(17)}
TransformSources == (Sources \ {SubjectSource(2)}) \cup ResultSources

\* The sources of the second observer: the Subject, and cold sources that the
\* first observer can be subscribed to as well.
SecondSources == {SubjectSource(1), ErrorObservable(2), ResultOk(13)}

NextTransform ==
  \/ \E kind \in Helpers, source \in TransformSources :
       SubscribeHelper(1, kind, source)
  \/ \E kind \in Helpers, source \in TransformSources, f \in Closures :
       SubscribeMap(1, kind, source, f)
  \/ \E kind \in Helpers, source \in TransformSources, f \in Closures :
       SubscribeMapError(1, kind, source, f)
  \/ \E source \in SecondSources : SubscribeHelper(2, "ErrorObserver", source)
  \/ \E item \in Item : PushNext(1, item)
  \/ PushCompleted(1)
  \/ \E error \in Failure : PushError(1, error)
  \/ \E o \in Observers : Release(o)

SpecTransform == Init /\ [][NextTransform]_vars

\* The program of the Lifeline claims: pairs made with lifeline::new, whose
\* Lifeline the program drops and whose Owner it uses, in any order.
NextLifeline ==
  \/ \E c \in Pairs, value \in Values : LifelineCreate(c, value)
  \/ \E c \in Pairs : LifelineRelease(c)
  \/ \E c \in Pairs : WithValue(c)
  \/ \E c \in Pairs, value \in Values : WithMutValue(c, value)
  \/ \E c \in Pairs : Take(c)

SpecLifeline == Init /\ [][NextLifeline]_vars

\* The program of the claim on a source that does not honour release: one
\* observer subscribed to source.continue_with(next), where source keeps
\* calling the adapter after the subscription was dropped; the program
\* drives source through its Subject 1.
KeepingNexts == Sources \ {SubjectSource(1)}

NextKeeping ==
  \/ \E kind \in HelperObservers, next \in KeepingNexts :
       SubscribeContinueWith(1, kind, KeepingSource(1), next)
  \/ \E s \in Subjects, item \in Item : PushNext(s, item)
  \/ \E s \in Subjects : PushCompleted(s)
  \/ \E s \in Subjects, error \in Failure : PushError(s, error)
  \/ \E o \in Observers : Release(o)

SpecKeeping == Init /\ [][NextKeeping]_vars

\* ------------------------------------------------------------- the claims
IsTerminal(c) == c.call \in {"on_completed", "on_error"}

\* The items of the on_next calls of a sequence of calls, in order.
RECURSIVE Items(_)
Items(calls) ==
  IF calls = <<>> THEN <<>>
  ELSE IF Head(calls).call = "on_next" THEN <<Head(calls).arg>> \o Items(Tail(calls))
  ELSE Items(Tail(calls))

\* a occurs in b as a subsequence (in order, b may hold more).
RECURSIVE IsSubsequence(_, _)
IsSubsequence(a, b) ==
  IF a = <<>> THEN TRUE
  ELSE IF b = <<>> THEN FALSE
  ELSE IF Head(a) = Head(b) THEN IsSubsequence(Tail(a), Tail(b))
  ELSE IsSubsequence(a, Tail(b))

From(seq, n) == SubSeq(seq, n + 1, Len(seq))

\* The observer holds a subscription to Subject s that was not released.
Holds(o, s) ==
  /\ subscription[o].type = "SubjectSubscription"
  /\ subscription[o].alive = <<s, o>>

Released(o) == subscription[o] = Dropped

\* Boxes of Subject s whose subscription is alive, and those of the rest.
Live(s) == {i \in DOMAIN subject[s].observers : subject[s].observers[i].alive \in rcs}
Dead(s) == DOMAIN subject[s].observers \ Live(s)
BoxObserver(s, i) == Id(subject[s].observers[i].observer)

\* The step is an on_next, a terminal call, a subscribe or a release.
IsOnNext(s) == pushed'[s] # pushed[s]
IsTerminalCall(s) == terminal'[s] # terminal[s]
IsSubscribe(o) == subscription[o] = NoSubscription /\ subscription'[o] # NoSubscription
IsRelease(o) == subscription[o] # Dropped /\ subscription'[o] = Dropped

\* C1: an observer subscribed to a Subject receives zero or more on_next and
\* then at most one terminal call: a terminal call is the last call it gets.
C1_NextThenAtMostOneTerminal ==
  \A o \in Observers : \A i \in DOMAIN received[o] :
    IsTerminal(received[o][i]) => i = Len(received[o])

C1_Witness ==
  \E o \in Observers :
    /\ Len(received[o]) >= 3
    /\ received[o][1].call = "on_next"
    /\ IsTerminal(Last(received[o]))

\* C2: every observer that holds its subscription to a Subject has received
\* every item pushed since it subscribed, at least once, in the order pushed.
C2_EveryItemInOrder ==
  \A o \in Observers, s \in Subjects :
    Holds(o, s) => IsSubsequence(From(pushed[s], since[s][o]), Items(received[o]))

C2_Witness ==
  \E o1, o2 \in Observers :
    /\ o1 # o2 /\ Holds(o1, 1) /\ Holds(o2, 1)
    /\ Len(received[o1]) >= 2 /\ Len(received[o2]) >= 1
    /\ since[1][o1] < since[1][o2]

C4_OneTerminalThenNothing ==
  [][\A s \in Subjects :
       /\ Len(terminal'[s]) <= 1
       /\ Len(terminal[s]) = 1 =>
            /\ pushed'[s] = pushed[s]
            /\ terminal'[s] = terminal[s]
            /\ since'[s] = since[s]
            /\ subject'[s] = subject[s]
            /\ \A o \in Observers : since[s][o] >= 0 => received'[o] = received[o]]_vars

C4_Witness ==
  /\ Len(terminal[1]) = 1
  /\ subject[1].moved
  /\ \E o1, o2 \in Observers :
       /\ Holds(o1, 1) /\ received[o1] # <<>> /\ IsTerminal(Last(received[o1]))
       /\ Released(o2) /\ since[1][o2] >= 0

\* The observer of a box panics when it is given the call.
PanicsOn(t, c) ==
  c.call = "on_error" /\ t.type \in {"NextObserver", "CompletedObserver", "OptionObserver"}

\* A live box before box i whose observer panics on the call.
PanicBefore(s, i, c) ==
  \E j \in Live(s) : j < i /\ PanicsOn(subject[s].observers[j].observer, c)

C6_NoDeadAfterOnNext ==
  [][\A s \in Subjects : IsOnNext(s) =>
       \A i \in DOMAIN subject'[s].observers :
         subject'[s].observers[i].alive \in rcs']_vars

IsPrefix(a, b) == Len(a) <= Len(b) /\ SubSeq(b, 1, Len(a)) = a

\* C7: releasing a Subject subscription marks its registration dead and
\* leaves the collection of every Subject as it is; a step that is not a
\* broadcast removes no entry.
C7_ReleaseKeepsCollection ==
  [][/\ \A o \in Observers : IsRelease(o) =>
          /\ subject' = subject
          /\ \A s \in Subjects : Holds(o, s) => <<s, o>> \notin rcs'
     /\ \A s \in Subjects : (~IsOnNext(s) /\ ~IsTerminalCall(s)) =>
          IsPrefix(subject[s].observers, subject'[s].observers)]_vars

C7_Witness ==
  \E o \in Observers :
    /\ Released(o)
    /\ Len(subject[1].observers) >= 2
    /\ \E i \in Dead(1) : BoxObserver(1, i) = o

C9_NothingBuffered ==
  [][/\ \A s \in Subjects : (IsOnNext(s) /\ subject[s].observers = <<>>) =>
          /\ subject' = subject /\ rcs' = rcs /\ cell' = cell
          /\ received' = received /\ subscription' = subscription
     /\ \A o \in Observers : IsSubscribe(o) => received'[o] = received[o]
     /\ \A o \in Observers, s \in Subjects : since'[s][o] >= 0 =>
          \A i \in DOMAIN received'[o] : \A k \in 1..since'[s][o] :
            received'[o][i] # NextCall(pushed'[s][k])]_vars

C9_Witness ==
  /\ \A p \in Observers : since[1][p] # 0
  /\ \E o \in Observers :
       /\ since[1][o] >= 1 /\ since[1][o] < Len(pushed[1])
       /\ Holds(o, 1) /\ received[o] # <<>>

\* ContinueWith: what the sources give to an observer.
NextCalls(items) == [i \in 1..Len(items) |-> NextCall(items[i])]

ItemsOf(source, o) ==
  CASE source.type \in {"Subject", "Keeping"} ->
         IF since[source.id][o] < 0 THEN <<>>
         ELSE From(pushed[source.id], since[source.id][o])
    [] source.type = "Slice" -> source.items
    [] source.type = "Result" -> IF source.ok THEN <<source.value>> ELSE <<>>
    [] OTHER -> <<>>

TerminalOf(source) ==
  CASE source.type \in {"Subject", "Keeping"} -> terminal[source.id]
    [] source.type = "Slice" -> <<CompletedCall>>
    [] source.type = "ErrorObservable" -> <<ErrorCall(source.error)>>
    [] source.type = "Result" ->
         IF source.ok THEN <<CompletedCall>> ELSE <<ErrorCall(source.value)>>
    [] OTHER -> <<>>

\* The observer was subscribed to source.continue_with(next) and did not
\* release the subscription.
Continued(o) ==
  /\ observable[o].type = "ContinueWithObservable"
  /\ subscription[o].type \in {"ContinueWithSubscription", "unwound"}

\* What source and then next have given the observer by now.
ContinuedCalls(o) ==
  NextCalls(ItemsOf(observable[o].source, o))
    \o NextCalls(ItemsOf(observable[o].next, o))
    \o TerminalOf(observable[o].next)

\* C10: if the source of ContinueWith completes, the observer has received
\* the items of source in order, then the items of next in order, then the
\* terminal call of next (when a panic has cut the run short: a prefix of
\* these calls).
C10_SourceThenNext ==
  \A o \in Observers :
    (Continued(o) /\ TerminalOf(observable[o].source) = <<CompletedCall>>) =>
      IF panicked
      THEN IsPrefix(received[o], ContinuedCalls(o))
      ELSE received[o] = ContinuedCalls(o)

C10_Witness ==
  \E o \in Observers :
    /\ Continued(o)
    /\ observable[o] = ContinueWithObservable(SubjectSource(1), SubjectSource(2))
    /\ terminal[1] = <<CompletedCall>>
    /\ Len(terminal[2]) = 1 /\ terminal[2][1].call = "on_error"
    /\ since[1][o] < Len(pushed[1])
    /\ since[2][o] >= 0 /\ since[2][o] < Len(pushed[2])
    /\ Len(received[o]) = 3

\* C11: for one subscription to source.continue_with(next), subscribe is
\* called on source, then at most once on next and on nothing else, and it
\* is called on next only if source has completed: right after the
\* subscription to a source that has not completed, only source is subscribed.
C11_NextSubscribedOnceAfterCompleted ==
  \A o \in Observers : observable[o].type = "ContinueWithObservable" =>
    /\ subscribes[o] # <<>>
    /\ IsPrefix(subscribes[o], <<observable[o].source, observable[o].next>>)
    /\ Len(subscribes[o]) = 2 =>
         TerminalOf(observable[o].source) = <<CompletedCall>>

C11_Witness ==
  \E o \in Observers :
    /\ observable[o] = ContinueWithObservable(SubjectSource(1), SubjectSource(2))
    /\ subscribes[o] = <<SubjectSource(1), SubjectSource(2)>>
    /\ pushed[1] # <<>> /\ pushed[2] # <<>>
    /\ received[o] = NextCalls(pushed[1] \o pushed[2])

Failed(source) ==
  Len(TerminalOf(source)) = 1 /\ TerminalOf(source)[1].call = "on_error"

\* C12: if the source of ContinueWith fails, the observer has received the
\* items of source and then the error of source, unchanged, and nothing
\* else; subscribe was never called on next.
C12_SourceErrorEndsIt ==
  \A o \in Observers : (Continued(o) /\ Failed(observable[o].source)) =>
    /\ received[o] = NextCalls(ItemsOf(observable[o].source, o))
                       \o TerminalOf(observable[o].source)
    /\ subscribes[o] = <<observable[o].source>>

C12_Witness ==
  \E o \in Observers :
    /\ Continued(o) /\ ~panicked
    /\ observable[o] = ContinueWithObservable(SubjectSource(1), SubjectSource(2))
    /\ Failed(SubjectSource(1))
    /\ pushed[2] # <<>>
    /\ Len(received[o]) >= 2

\* C13: releasing the subscription of ContinueWith releases the subscription
\* to source and destroys the slot with the subscription to next in it, so
\* that no registration of the observer is live any more; from then on the
\* observer receives nothing and nothing is subscribed for it.
C13_ReleaseReleasesBoth ==
  [][\A o \in Observers : observable[o].type = "ContinueWithObservable" =>
       /\ IsRelease(o) =>
            /\ \A s \in Subjects : <<s, o>> \notin rcs'
            /\ cell'[o] = [state |-> "dropped", value |-> NoSubscription]
       /\ Released(o) =>
            /\ received'[o] = received[o]
            /\ subscribes'[o] = subscribes[o]]_vars

\* Released while subscribed to next, and next has pushed since.
C13_Witness ==
  \E o \in Observers :
    /\ Released(o)
    /\ observable[o] = ContinueWithObservable(SubjectSource(1), SubjectSource(2))
    /\ subscribes[o] = <<SubjectSource(1), SubjectSource(2)>>
    /\ received[o] # <<>>
    /\ Last(received[o]).call = "on_next"
    /\ pushed[2] # <<>>
    /\ Last(received[o]).arg < Last(pushed[2])

\* The observer holds the subscription it was given (or a panic took it).
Holding(o) == subscription[o].type \notin {"none", "dropped"}

MappedCalls(f, items) == [i \in 1..Len(items) |-> NextCall(Call(f, items[i]))]
Applications(f, args) == [i \in 1..Len(args) |-> [f |-> f, arg |-> args[i]]]

\* The terminal call as MapError hands it on.
MappedTerminal(f, calls) ==
  [i \in 1..Len(calls) |->
     IF calls[i].call = "on_error" THEN ErrorCall(Call(f, calls[i].arg))
     ELSE calls[i]]

\* The errors among the calls.
Errors(calls) ==
  LET errors == SelectSeq(calls, LAMBDA c : c.call = "on_error")
  IN [i \in 1..Len(errors) |-> errors[i].arg]

\* C14: an observer subscribed to source.map(f) has received f(x) for every
\* item x of source, in order, then the terminal call of source as it is;
\* f was applied once to each item, in order, and to nothing else.  After a
\* release the observer has a prefix of these calls and f was applied once
\* for each on_next it received.
C14_MapItemsTerminalUnchanged ==
  \A o \in Observers : observable[o].type = "MapObservable" =>
    LET source == observable[o].source
        f == observable[o].f
        calls == MappedCalls(f, ItemsOf(source, o)) \o TerminalOf(source)
    IN IF Holding(o)
       THEN /\ received[o] = calls
            /\ applied[o] = Applications(f, ItemsOf(source, o))
       ELSE /\ IsPrefix(received[o], calls)
            /\ IsPrefix(applied[o], Applications(f, ItemsOf(source, o)))
            /\ Len(applied[o]) = Len(Items(received[o]))

C14_Witness ==
  \E o \in Observers :
    /\ observable[o] = MapObservable(SubjectSource(1), "double")
    /\ Holding(o)
    /\ Len(applied[o]) >= 2
    /\ Failed(SubjectSource(1))
    /\ Len(received[o]) = Len(applied[o]) + 1

\* C15: an observer subscribed to source.map_error(g) has received the
\* items of source as they are, in order, then on_completed if source
\* completed (g never applied), or on_error(g(e)) if source failed with e
\* (g applied once, to e).  After a release it has a prefix of these calls
\* and g was applied once for the on_error it received, if any.
C15_MapErrorOnlyError ==
  \A o \in Observers : observable[o].type = "MapErrorObservable" =>
    LET source == observable[o].source
        g == observable[o].f
        calls == NextCalls(ItemsOf(source, o)) \o MappedTerminal(g, TerminalOf(source))
    IN IF Holding(o)
       THEN /\ received[o] = calls
            /\ applied[o] = Applications(g, Errors(TerminalOf(source)))
       ELSE /\ IsPrefix(received[o], calls)
            /\ IsPrefix(applied[o], Applications(g, Errors(TerminalOf(source))))
            /\ Len(applied[o]) = Len(Errors(received[o]))

C15_Witness ==
  \E o \in Observers :
    /\ observable[o] = MapErrorObservable(SubjectSource(1), "plus_ten")
    /\ Holding(o) /\ ~panicked
    /\ terminal[1] = <<ErrorCall(2)>>
    /\ Len(received[o]) >= 2
    /\ Last(received[o]) = ErrorCall(12)
    /\ applied[o] = <<[f |-> "plus_ten", arg |-> 2]>>

\* The step is an Owner operation, a take, or the drop of the Lifeline.
IsOwnerCall(c) == owner_calls'[c] # owner_calls[c]
IsTake(c) == taken[c] = NotTaken /\ taken'[c] # NotTaken
IsLifelineRelease(c) == cell[c].state = "alive" /\ cell'[c].state = "dropped"

\* C16: once the Lifeline of a pair is released, an Owner operation invokes
\* no action, changes and destroys nothing, take returns None, and no
\* operation on a pair panics.
C16_ReleasedOwnerNoOp ==
  [][/\ \A c \in Pairs : (cell[c].state = "dropped" /\ IsOwnerCall(c)) =>
          /\ invoked' = invoked
          /\ cell' = cell
          /\ destroyed' = destroyed
          /\ IsTake(c) => taken'[c] = TakeNone
     /\ ~panicked']_vars

C16_Witness ==
  \E c \in Pairs :
    /\ cell[c].state = "dropped"
    /\ owner_calls[c] = <<WithValueCall, WithMutValueCall(Value(2)), TakeCall>>
    /\ invoked[c] = <<>>
    /\ taken[c] = TakeNone
    /\ Len(destroyed) = 1

\* C17: take returns the stored value and leaves the storage empty if the
\* Lifeline is alive (and the value was not taken), without destroying the
\* value, and returns None and changes nothing otherwise; a release of the
\* Lifeline after a take that returned the value destroys nothing and
\* leaves what take returned as it is.
C17_TakeOnce ==
  [][\A c \in Pairs :
       /\ IsTake(c) =>
            IF Alive(World, c)
            THEN /\ taken'[c] = TakeSome(cell[c].value)
                 /\ cell'[c] = [state |-> "alive", value |-> Taken]
                 /\ destroyed' = destroyed
            ELSE /\ taken'[c] = TakeNone
                 /\ cell'[c] = cell[c]
       /\ (IsLifelineRelease(c) /\ taken[c].type = "Some") =>
            /\ destroyed' = destroyed
            /\ taken' = taken]_vars

C17_Witness ==
  \E c \in Pairs :
    /\ taken[c] = TakeSome(Value(2))
    /\ invoked[c] = <<Value(1)>>
    /\ cell[c].state = "dropped"
    /\ destroyed = <<Value(1)>>

C19_SliceItemsThenCompleted ==
  \A o \in Observers : observable[o].type = "Slice" =>
    /\ received[o] = NextCalls(observable[o].items) \o <<CompletedCall>>
    /\ subscription[o] \in {UncancellableSubscription, Dropped}
    /\ \A i \in DOMAIN called[o] :
         called[o][i].fn # "fn_error" /\ called[o][i].arg.result # "Err"

C19_Witness ==
  \E o \in Observers :
    /\ observable[o] = SliceSource(<<8, 9>>)
    /\ subscription[o] = UncancellableSubscription
    /\ received[o] = <<NextCall(8), NextCall(9), CompletedCall>>
    /\ Len(called[o]) = 3

\* The observer receives on_error in the step.
GetsError(o) ==
  /\ received'[o] # received[o]
  /\ Last(received'[o]).call = "on_error"

\* C20: when on_error reaches an observer made by subscribe_next,
\* subscribe_completed or subscribe_option, it panics and calls none of the
\* functions of the program; when it reaches one made by subscribe_error or
\* subscribe_result, nothing panics and the error is passed to fn_error,
\* or to fn_result as Err(error).
C20_HelpersPanicOrRoute ==
  [][\A o \in Observers : GetsError(o) =>
       LET error == Last(received'[o]).arg
       IN CASE helper'[o] = "ErrorObserver" ->
                 /\ ~panicked'
                 /\ called'[o] = Append(called[o], [fn |-> "fn_error", arg |-> Plain(error)])
            [] helper'[o] = "ResultObserver" ->
                 /\ ~panicked'
                 /\ called'[o] = Append(called[o], [fn |-> "fn_result", arg |-> Err(error)])
            [] OTHER ->
                 /\ panicked'
                 /\ called'[o] = called[o]]_vars

C20_Witness ==
  \E o \in Observers :
    /\ panicked
    /\ helper[o] = "OptionObserver"
    /\ observable[o] = SubjectSource(1)
    /\ Last(received[o]) = ErrorCall(2)
    /\ called[o] # <<>>
    /\ \A i \in DOMAIN called[o] : called[o][i].arg.option = "Some"

\* What the observable of the observer has given by now to an observer that
\* holds its subscription: the calls of the source, as map and map_error
\* hand them on.
SourceCalls(o) ==
  LET ob == observable[o]
  IN CASE ob.type = "MapObservable" ->
            MappedCalls(ob.f, ItemsOf(ob.source, o)) \o TerminalOf(ob.source)
       [] ob.type = "MapErrorObservable" ->
            NextCalls(ItemsOf(ob.source, o)) \o MappedTerminal(ob.f, TerminalOf(ob.source))
       [] OTHER -> NextCalls(ItemsOf(ob, o)) \o TerminalOf(ob)

\* The observer has been given every call of its observable: it holds its
\* subscription and no panic of another observer has cut a broadcast short.
GivenAll(o) ==
  /\ Holding(o)
  /\ panicked => (received[o] # <<>> /\ PanicsOn([type |-> helper[o]], Last(received[o])))

FnCall(fn, arg) == [fn |-> fn, arg |-> arg]

\* The calls of the three functions of subscribe_error for a sequence of
\* Observer calls.
ErrorFns(calls) ==
  [i \in 1..Len(calls) |->
     CASE calls[i].call = "on_next" -> FnCall("fn_next", Plain(calls[i].arg))
       [] calls[i].call = "on_completed" -> FnCall("fn_completed", Unit)
       [] calls[i].call = "on_error" -> FnCall("fn_error", Plain(calls[i].arg))]

ResultFns(calls) ==
  [i \in 1..Len(calls) |->
     CASE calls[i].call = "on_next" -> FnCall("fn_result", Ok(Some(calls[i].arg)))
       [] calls[i].call = "on_completed" -> FnCall("fn_result", Ok(None))
       [] calls[i].call = "on_error" -> FnCall("fn_result", Err(calls[i].arg))]

\* C22: with subscribe_result, the function was called with Ok(Some(x)) for
\* every value x of the source in order, then with Ok(None) if the source
\* completed, or with Err(error) if it failed (after a release: a prefix of
\* these calls); a call with Ok(None) or Err is the last call of the function.
C22_ResultFunctionFollowsSource ==
  \A o \in Observers : helper[o] = "ResultObserver" =>
    /\ IF GivenAll(o)
       THEN called[o] = ResultFns(SourceCalls(o))
       ELSE IsPrefix(called[o], ResultFns(SourceCalls(o)))
    /\ called[o] = ResultFns(received[o])
    /\ \A i \in DOMAIN called[o] :
         called[o][i].arg.option # "Some" => i = Len(called[o])

C22_Witness ==
  \E o \in Observers :
    /\ helper[o] = "ResultObserver" /\ Holding(o)
    /\ observable[o] = SubjectSource(1)
    /\ called[o] = <<FnCall("fn_result", Ok(Some(1))), FnCall("fn_result", Ok(Some(2))),
                     FnCall("fn_result", Err(1))>>

\* The calls of the function of subscribe_option for a sequence of Observer
\* calls: none for an on_error.
OptionFns(calls) ==
  LET given == SelectSeq(calls, LAMBDA c : c.call # "on_error")
  IN [i \in 1..Len(given) |->
        IF given[i].call = "on_next" THEN FnCall("fn_option", Some(given[i].arg))
        ELSE FnCall("fn_option", None)]

\* C23: with subscribe_option, the function was called with Some(x) for
\* every value x of the source in order, then with None if the source
\* completed (after a release: a prefix of these calls); a call with None is
\* the last call of the function.
C23_OptionFunctionFollowsSource ==
  \A o \in Observers : helper[o] = "OptionObserver" =>
    /\ IF GivenAll(o)
       THEN called[o] = OptionFns(SourceCalls(o))
       ELSE IsPrefix(called[o], OptionFns(SourceCalls(o)))
    /\ called[o] = OptionFns(received[o])
    /\ \A i \in DOMAIN called[o] : called[o][i].arg = None => i = Len(called[o])

C23_Witness ==
  \E o \in Observers :
    /\ helper[o] = "OptionObserver" /\ Holding(o)
    /\ observable[o] = SubjectSource(1)
    /\ called[o] = <<FnCall("fn_option", Some(1)), FnCall("fn_option", Some(2)),
                     FnCall("fn_option", None)>>

\* C24: an observer subscribed to a Result value has received, from the
\* moment subscribe returns, exactly on_next(value) and then on_completed
\* if the value is a success, and exactly on_error(error) if it is a
\* failure; nothing is added later.
C24_ResultOneValueOrOneError ==
  \A o \in Observers : observable[o].type = "Result" =>
    IF observable[o].ok
    THEN received[o] = <<NextCall(observable[o].value), CompletedCall>>
    ELSE received[o] = <<ErrorCall(observable[o].value)>>

\* A failure value given to subscribe_error, a success value to another.
C24_Witness ==
  \E o1, o2 \in Observers :
    /\ observable[o1] = ResultErr(17)
    /\ called[o1] = <<FnCall("fn_error", Plain(17))>>
    /\ observable[o2] = ResultOk(13)
    /\ called[o2] = <<FnCall("fn_next", Plain(13)), FnCall("fn_completed", Unit)>>

\* C25: every subscribe to the error source made with error e gives the
\* observer exactly one on_error(e) and nothing else, before it returns.
C25_ErrorSourceOneError ==
  \A o \in Observers : observable[o].type = "ErrorObservable" =>
    /\ received[o] = <<ErrorCall(observable[o].error)>>
    /\ subscribes[o] = <<observable[o]>>
    /\ \A i \in DOMAIN called[o] :
         called[o][i] \in {FnCall("fn_error", Plain(observable[o].error)),
                           FnCall("fn_result", Err(observable[o].error))}

\* The same error source subscribed twice.
C25_Witness ==
  \E o1, o2 \in Observers :
    /\ o1 # o2
    /\ observable[o1] = ErrorObservable(2) /\ observable[o2] = ErrorObservable(2)
    /\ called[o1] = <<FnCall("fn_result", Err(2))>>
    /\ called[o2] = <<FnCall("fn_error", Plain(2))>>

\* The terminal calls among the calls.
Terminals(calls) == SelectSeq(calls, IsTerminal)

\* C26: the adapter of ContinueWith keeps the completion of source to
\* itself.  The observer gets at most one terminal call, as its last call;
\* once next is subscribed (source has completed) that call is the terminal
\* call of next, and there is none as long as next has not ended; before
\* that, the only terminal call the observer can get is the error of source.
C26_CompletionIntercepted ==
  \A o \in Observers : observable[o].type = "ContinueWithObservable" =>
    LET ends == Terminals(received[o])
    IN /\ Len(ends) <= 1
       /\ \A i \in DOMAIN received[o] : IsTerminal(received[o][i]) => i = Len(received[o])
       /\ IF Len(subscribes[o]) = 2
          THEN IsPrefix(ends, TerminalOf(observable[o].next))
          ELSE /\ IsPrefix(ends, TerminalOf(observable[o].source))
               /\ \A i \in DOMAIN ends : ends[i].call = "on_error"

\* source has completed, next goes on: the observer has items of both and
\* no terminal call.
C26_Witness ==
  \E o \in Observers :
    /\ Continued(o) /\ ~panicked
    /\ observable[o] = ContinueWithObservable(SubjectSource(1), SubjectSource(2))
    /\ terminal[1] = <<CompletedCall>> /\ terminal[2] = <<>>
    /\ since[1][o] < Len(pushed[1])
    /\ since[2][o] >= 0 /\ since[2][o] < Len(pushed[2])
    /\ received[o] = NextCalls(ItemsOf(SubjectSource(1), o) \o ItemsOf(SubjectSource(2), o))

\* The Subscription that source.subscribe returns to observer o.
Returns(source, o) ==
  CASE source.type = "Subject" ->
         [type |-> "SubjectSubscription", alive |-> <<source.id, o>>]
    [] source.type = "Never" -> NeverSubscription
    [] OTHER -> UncancellableSubscription

\* C27: the subscription of ContinueWith that the program holds has a slot
\* of its own, which is alive; the slot is empty unless source has completed
\* (also when source failed), and holds the subscription that next.subscribe
\* returned if source has completed, before subscribe returned or later.
C27_SlotHoldsNextSubscription ==
  \A o \in Observers :
    (subscription[o].type = "ContinueWithSubscription" /\ ~panicked) =>
      /\ subscription[o].subs_next = o
      /\ cell[o].state = "alive"
      /\ cell[o].value =
           IF TerminalOf(observable[o].source) = <<CompletedCall>>
           THEN Returns(observable[o].next, o)
           ELSE NoSubscription

\* source completed inside subscribe, and the slot holds the subscription to
\* next, which has pushed since.
C27_Witness ==
  \E o \in Observers :
    /\ subscription[o].type = "ContinueWithSubscription" /\ ~panicked
    /\ observable[o] = ContinueWithObservable(SliceSource(<<8, 9>>), SubjectSource(2))
    /\ cell[o] = [state |-> "alive",
                  value |-> [type |-> "SubjectSubscription", alive |-> <<2, o>>]]
    /\ Len(received[o]) = 3

\* C28: while the Lifeline of a pair is alive and the value was not taken,
\* with_value and with_mut_value each invoke their action exactly once, on
\* the stored value; with_value leaves the storage as it is, and after
\* with_mut_value the storage holds what the action assigned; take returns
\* the stored value, and no step other than an Owner operation changes the
\* storage of a pair that stays alive: a change is what every later
\* operation finds.
C28_ActionOnceOnStoredValue ==
  [][\A c \in Pairs :
       /\ (IsOwnerCall(c) /\ Alive(World, c)) =>
            LET owner_call == Last(owner_calls'[c])
            IN CASE owner_call.op = "with_value" ->
                      /\ invoked'[c] = Append(invoked[c], cell[c].value)
                      /\ cell' = cell
                      /\ destroyed' = destroyed
                 [] owner_call.op = "with_mut_value" ->
                      /\ invoked'[c] = Append(invoked[c], cell[c].value)
                      /\ cell'[c] = [state |-> "alive", value |-> owner_call.assigns]
                 [] OTHER ->
                      /\ invoked'[c] = invoked[c]
                      /\ taken'[c] = TakeSome(cell[c].value)
       /\ (~IsOwnerCall(c) /\ cell[c].state = "alive" /\ cell'[c].state = "alive") =>
            cell'[c] = cell[c]]_vars

\* A value changed through with_mut_value, seen by with_value and by take.
C28_Witness ==
  \E c \in Pairs :
    /\ owner_calls[c] = <<WithMutValueCall(Value(2)), WithValueCall, TakeCall>>
    /\ invoked[c] = <<Value(1), Value(2)>>
    /\ taken[c] = TakeSome(Value(2))
    /\ cell[c] = [state |-> "alive", value |-> Taken]

\* The observers of the live boxes of Subject s, in the order of the boxes.
RECURSIVE LiveFrom(_, _)
LiveFrom(s, i) ==
  IF i > Len(subject[s].observers) THEN <<>>
  ELSE (IF i \in Live(s) THEN <<BoxObserver(s, i)>> ELSE <<>>) \o LiveFrom(s, i + 1)

\* C29: the boxes of a Subject are in the order in which their observers
\* subscribed (the program numbers its observers in that order); an on_next
\* calls the observers of the live boxes in that order, each once; no
\* observer has the item before the call starts and every live one has it
\* when the call ends, so every observer has an item before any observer
\* gets the next one.
C29_BroadcastInSubscribeOrder ==
  [][\A s \in Subjects :
       /\ \A i, j \in DOMAIN subject'[s].observers :
            i < j => BoxObserver(s, i)' < BoxObserver(s, j)'
       /\ IsOnNext(s) =>
            /\ order' = LiveFrom(s, 1)
            /\ \A o \in Observers : \A i \in DOMAIN received[o] :
                 received[o][i] # NextCall(Last(pushed'[s]))
            /\ \A i \in Live(s) :
                 Last(received'[BoxObserver(s, i)]) = NextCall(Last(pushed'[s]))]_vars

\* Two items broadcast to three observers, the second one released.
C29_Witness ==
  /\ order = <<1, 3>>
  /\ Len(pushed[1]) = 2
  /\ Released(2)
  /\ received[1] = NextCalls(pushed[1])
  /\ received[3] = NextCalls(pushed[1])
  /\ received[2] = <<>>

\* C30: once the subscription of ContinueWith over a Subject is released
\* with only source subscribed, no later on_next, on_completed or on_error
\* of that Subject reaches the adapter: subscribe is not called on next, the
\* observer is called by no step and the slot stays destroyed.
C30_ReleasedAdapterUnreached ==
  [][\A o \in Observers :
       (/\ Released(o)
        /\ observable[o].type = "ContinueWithObservable"
        /\ observable[o].source.type = "Subject"
        /\ subscribes[o] = <<observable[o].source>>) =>
         /\ subscribes'[o] = subscribes[o]
         /\ received'[o] = received[o]
         /\ called'[o] = called[o]
         /\ \A i \in DOMAIN order' : order'[i] # o
         /\ cell'[o] = [state |-> "dropped", value |-> NoSubscription]
         /\ \A s \in Subjects : <<s, o>> \notin rcs']_vars

\* Released before the Subject pushed again and completed; next was never
\* subscribed.
C30_Witness ==
  \E o \in Observers :
    /\ Released(o)
    /\ observable[o] = ContinueWithObservable(SubjectSource(1), SubjectSource(2))
    /\ subscribes[o] = <<SubjectSource(1)>>
    /\ terminal[1] = <<CompletedCall>>
    /\ received[o] # <<>>
    /\ Len(received[o]) < Len(ItemsOf(SubjectSource(1), o))
    /\ subject[2].observers = <<>>

\* The observer released its subscription of ContinueWith over a source
\* that does not honour release, and next is not subscribed yet.
ReleasedUnhonoured(o) ==
  /\ Released(o)
  /\ observable[o].type = "ContinueWithObservable"
  /\ observable[o].source.type = "Keeping"
  /\ subscribes[o] = <<observable[o].source>>

\* What a source gives an observer before its subscribe returns.
GivenInSubscribe(source, o) ==
  IF source.type \in {"Subject", "Never"} THEN <<>>
  ELSE NextCalls(ItemsOf(source, o)) \o TerminalOf(source)

\* C31: when the adapter of ContinueWith gets on_completed after the
\* combined subscription was released, subscribe is called on next, once,
\* with the observer, the slot stays destroyed and holds nothing, and the
\* subscription that next.subscribe returned is dropped inside on_completed:
\* a registration with a Subject next is dead when the call returns, and the
\* observer gets nothing from next afterwards.
C31_LateCompletionSubscribesAndDrops ==
  [][\A o \in Observers :
       /\ (/\ ReleasedUnhonoured(o)
           /\ IsTerminalCall(observable[o].source.id)
           /\ Last(terminal'[observable[o].source.id]) = CompletedCall) =>
            LET next == observable[o].next
            IN /\ subscribes'[o] = <<observable[o].source, next>>
               /\ cell'[o] = [state |-> "dropped", value |-> NoSubscription]
               /\ received'[o] = received[o] \o GivenInSubscribe(next, o)
               /\ next.type = "Subject" =>
                    /\ <<next.id, o>> \notin rcs'
                    /\ subject'[next.id].observers # <<>>
                    /\ Id(Last(subject'[next.id].observers).observer) = o
       /\ (Released(o) /\ Len(subscribes[o]) = 2) =>
            /\ subscribes'[o] = subscribes[o]
            /\ received'[o] = received[o]
            /\ cell'[o] = cell[o]]_vars

\* Released, then source completed: next was subscribed and has pushed
\* since, and its item did not reach the observer.
C31_Witness ==
  \E o \in Observers :
    /\ Released(o)
    /\ observable[o] = ContinueWithObservable(KeepingSource(1), SubjectSource(2))
    /\ subscribes[o] = <<KeepingSource(1), SubjectSource(2)>>
    /\ terminal[1] = <<CompletedCall>>
    /\ Len(subject[2].observers) = 1 /\ Dead(2) = {1}
    /\ pushed[2] # <<>> /\ since[2][o] < Len(pushed[2])
    /\ received[o] = NextCalls(pushed[1])
    /\ pushed[1] # <<>>
    /\ cell[o].state = "dropped"

Mapped(o) == observable[o].type \in {"MapObservable", "MapErrorObservable"}

\* C32: subscribe of source.map(f) and of source.map_error(g) returns the
\* subscription that source returned for the adapter.  With a Subject as
\* source: the registration made holds the adapter and the subscription is
\* the one that keeps it alive; releasing it changes only the liveness of
\* that registration, from then on nothing reaches the observer and f or g
\* is not applied for it, and an on_next still reaches every observer that
\* holds its subscription.
C32_MapSubscriptionIsSourceOwn ==
  [][/\ \A o \in Observers : (IsSubscribe(o) /\ Mapped(o)' /\ ~panicked') =>
          LET source == observable'[o].source
          IN /\ subscription'[o] = Returns(source, o)
             /\ source.type = "Subject" =>
                  LET observer_box == Last(subject'[source.id].observers)
                  IN /\ observer_box.alive = subscription'[o].alive
                     /\ observer_box.observer.type \in {"MapObserver", "MapErrorObserver"}
                     /\ observer_box.observer.f = observable'[o].f
                     /\ Id(observer_box.observer) = o
     /\ \A o \in Observers : (IsRelease(o) /\ Mapped(o)) =>
          /\ subject' = subject
          /\ rcs' = rcs \ {<<s, o>> : s \in Subjects}
     /\ \A o \in Observers : (Released(o) /\ Mapped(o)) =>
          /\ received'[o] = received[o]
          /\ applied'[o] = applied[o]
          /\ called'[o] = called[o]
     /\ \A s \in Subjects : IsOnNext(s) =>
          \A p \in Observers : Holds(p, s) =>
            received'[p] =
              Append(received[p],
                     NextCall(IF observable[p].type = "MapObservable"
                              THEN Call(observable[p].f, Last(pushed'[s]))
                              ELSE Last(pushed'[s])))]_vars

\* The subscription of Subject.map(double) was released after one item; the
\* Subject pushed again and its other subscriber got the item.
C32_Witness ==
  /\ Released(1) /\ Holds(2, 1)
  /\ observable[1] = MapObservable(SubjectSource(1), "double")
  /\ since[1][1] = 0 /\ since[1][2] = 0
  /\ Len(pushed[1]) = 2
  /\ received[1] = <<NextCall(2)>>
  /\ applied[1] = <<[f |-> "double", arg |-> 1]>>
  /\ received[2] = <<NextCall(1), NextCall(2)>>

====
